---- MODULE Spec2Model ----
(***************************************************************************)
(* Argus: the route comparison server (app.py) and the comparator it runs  *)
(* as a subprocess (data_processing.py) over the provider adapters         *)
(* (google_routing.py, here_routing.py, osm_routing.py).                   *)
(*                                                                         *)
(* Four specifications share the request handlers of app.py:               *)
(*   Spec          one request, and the comparator subprocess it starts,   *)
(*                 step by step (argument dispatch, pair generation, the   *)
(*                 fan-out and join of the three adapter calls per pair,   *)
(*                 saving);                                                *)
(*   SpecApp       the request threads and the /progress stream of the     *)
(*                 threaded server, over subprocesses seen from outside    *)
(*                 (they write output lines, save and exit);               *)
(*   SpecAppFair   SpecApp with subprocesses that run when they can;       *)
(*   SpecProgress  one request thread and two /progress clients.           *)
(* Five more apply one function each to inputs of its own:                 *)
(*   SpecCoverage      calculate_coverage on a reference and a candidate;  *)
(*   SpecUsage         _update_gh_usage in processes that overlap;         *)
(*   SpecGraphhopper   the GraphHopper calls of one process;               *)
(*   SpecInstructions  the instructions each adapter returns;              *)
(*   SpecSnap          the road snappers.                                  *)
(***************************************************************************)
EXTENDS Integers, Sequences, FiniteSets, TLC

(***************************************************************************)
(* Bounds of the model.                                                    *)
(***************************************************************************)
\* Pairs per batch. data_processing.py:15 sets 5; every statement about a batch
\* is uniform in the number of pairs, and the model runs smaller batches.
NUM_ROUTES == 2
\* Requests handled in one behaviour of SpecApp.
MaxRequests == 2
\* Output lines one subprocess writes in SpecApp, at most.
MaxLines == 2
\* Route end points of SpecCoverage lie at 0 .. MaxCoord buffer widths; the
\* points of SpecSnap have coordinates 1 .. MaxCoord.
MaxCoord == 3
\* Successful GraphHopper calls one process makes in SpecUsage.
MaxGhCalls == 2
\* Instructions in one provider response in SpecInstructions.
MaxInstructions == 4

BUFFER_METERS == 30

VARIABLES
    \* ---- app.py ----
    process,        \* the global `process`: 0 (None) or a handle into procs
    procs,          \* every subprocess started by Popen: [argv, status, lines, emitted, unread, closed, saved]
    tpc,            \* per request thread: "idle", or the handler it is in, past the busy check
    resp,           \* per request thread: the last response returned
    treq,           \* per request thread: the handler and the body of the last request it read
    nreq,           \* requests received so far
    gpc,            \* per /progress stream: position inside generate()
    gout,           \* per /progress stream: the process whose stdout it iterates
    received,       \* per /progress stream: lines and close events yielded to the client
    \* ---- data_processing.py, the subprocess procs[1] of Spec ----
    state,          \* phase of the run
    mode,           \* "none", "batch" (RANDOM mode) or "manual"
    fpc,            \* position inside the fan-out/join of one pair
    i,              \* loop index of process_routes
    current_bbox, strategy, osm_provider,
    origins, destinations,
    google_routes, here_routes, osm_routes, od_points, stats,
    google_opts, here_opts, osm_opts,
    fut,            \* the three futures of the current pair
    calls,          \* every adapter call issued: [provider, pair, origin, destination]
    seen,           \* per pair: the strategy each strategy-aware adapter read from its options
    returned,       \* per pair and provider: "unset", or what the adapter call returned
    out,            \* lines written to stdout
    files,          \* the data/ directory: what the last save wrote
    gh_usage,       \* count in graphhopper_usage.json
    \* ---- calculate_coverage, applied to routes of its own (SpecCoverage) ----
    reference,      \* the reference route
    candidate,      \* the candidate route, or None
    coverage,       \* [set, value]: unset, or the value returned
    \* ---- _update_gh_usage, called from several processes (SpecUsage) ----
    usage_file,     \* graphhopper_usage.json: missing, empty (opened for writing), or a count
    upc,            \* per process: position inside _update_gh_usage
    usage,          \* per process: the count in the local dict `usage`
    updates,        \* per process: calls of _update_gh_usage that returned
    answers,        \* per process: what the endpoint did with each of its requests
    \* ---- the instructions an adapter extracts (SpecInstructions) ----
    called,         \* the adapter called
    texts,          \* the instruction texts of the steps in the provider's response
    instructions,   \* [set, value]: unset, or details['instructions'] as returned
    \* ---- the road snappers, applied to points of their own (SpecSnap) ----
    snapper,        \* the snapper called
    snap_point,     \* the raw point handed to it
    snap_lookup,    \* what the provider's nearest-road lookup does
    snapped         \* [set, value]: unset, or the point returned

appVars == <<process, procs, tpc, resp, treq, nreq, gpc, gout, received>>
runVars == <<state, mode, fpc, i, current_bbox, strategy, osm_provider, origins,
             destinations, google_routes, here_routes, osm_routes, od_points, stats,
             google_opts, here_opts, osm_opts, fut, calls, seen, returned, out, files,
             gh_usage>>
covVars == <<reference, candidate, coverage>>
usageVars == <<usage_file, upc, usage, updates, answers>>
instrVars == <<called, texts, instructions>>
snapVars == <<snapper, snap_point, snap_lookup, snapped>>
pureVars == <<covVars, usageVars, instrVars, snapVars>>
vars == <<appVars, runVars, pureVars>>

(***************************************************************************)
(* Values.                                                                 *)
(***************************************************************************)
None == 0
Providers == {"google", "here", "osm"}

\* A dict as a set of <<key, value>> pairs.
DictGet(d, k, default) ==
    IF \E p \in d : p[1] = k THEN (CHOOSE p \in d : p[1] = k)[2] ELSE default
DictPop(d, k) == {p \in d : p[1] # k}

\* float(s) of a command line argument: the number, or NaF for ValueError.
NaF == -1
ParseFloat(s) ==
    CASE s = "1" -> 1
      [] s = "2" -> 2
      [] s = "3" -> 3
      [] OTHER -> NaF

\* The default bounding box of data_processing.py.
BBOX == <<1, 1, 3, 3>>

\* A route geometry in the projected CRS: a line along one axis from lo to hi,
\* in metres.  None is the absent route.
NoRoute == [present |-> FALSE, lo |-> 0, hi |-> 0]
NoDetails == [present |-> FALSE, distance |-> 0, duration |-> 0]
Route(lo, hi) == [present |-> TRUE, lo |-> lo, hi |-> hi]
Details(dist, dur) == [present |-> TRUE, distance |-> dist, duration |-> dur]

\* What an adapter hands back: a 2-tuple, or a bare None when the function
\* falls off its end.
Tuple(r, d) == [kind |-> "tuple", route |-> r, details |-> d]
NonePair == Tuple(NoRoute, NoDetails)
BareNone == [kind |-> "None", route |-> NoRoute, details |-> NoDetails]

\* What the provider's endpoint does with one request.
Outcomes == {"route", "empty", "bad_status", "transport_failure"}
KeyedOutcomes == Outcomes \cup {"no_key"}

\* The alternatives Google's Directions API returns for a routable pair: the
\* shorter one is the slower one.
GoogleAlternatives ==
    << [distance |-> 5, duration |-> 2, lo |-> 0, hi |-> 5 * BUFFER_METERS],
       [distance |-> 4, duration |-> 3, lo |-> 0, hi |-> 4 * BUFFER_METERS] >>

\* A pair whose origin is its destination: every route between its endpoints
\* stays on the spot, a line of length zero.
GoogleStandstill == << [distance |-> 0, duration |-> 0, lo |-> 0, hi |-> 0] >>
AlternativesFor(origin, destination) ==
    IF origin = destination THEN GoogleStandstill ELSE GoogleAlternatives

\* The least of a non-empty set of numbers.
Least(S) == CHOOSE k \in S : \A m \in S : k <= m

\* The first element of seq whose key is `least` (min() keeps the first minimum).
FirstWith(seq, keys, least) ==
    seq[CHOOSE n \in 1..Len(seq) :
            /\ keys[n] = least
            /\ \A m \in 1..(n - 1) : keys[m] # least]

\* min(directions_result, key=lambda r: r['legs'][0]['distance']['value'])
MinByDistance(seq) ==
    LET keys == [n \in 1..Len(seq) |-> seq[n].distance]
    IN  FirstWith(seq, keys, Least({keys[n] : n \in 1..Len(seq)}))

\* min(directions_result, key=lambda r: r['legs'][0]['duration']['value'])
MinByDuration(seq) ==
    LET keys == [n \in 1..Len(seq) |-> seq[n].duration]
    IN  FirstWith(seq, keys, Least({keys[n] : n \in 1..Len(seq)}))

(***************************************************************************)
(* The provider adapters, as functions of the endpoint's outcome.  Each    *)
(* gives [ret, opts, seen]: the value returned, the options dict as the    *)
(* call leaves it, and the strategy the call worked with.                  *)
(***************************************************************************)
get_google_route(origin, destination, outcome, routing_options) ==
    LET strat == DictGet(routing_options, "strategy", "fastest")
        opts  == DictPop(routing_options, "strategy")
        best  == IF strat = "shortest"
                 THEN MinByDistance(AlternativesFor(origin, destination))
                 ELSE MinByDuration(AlternativesFor(origin, destination))
    IN  [ret  |-> IF outcome = "route"
                  THEN Tuple(Route(best.lo, best.hi),
                             Details(best.distance, best.duration))
                  ELSE NonePair,
         opts |-> opts,
         seen |-> strat]

get_here_route(origin, destination, outcome, routing_options) ==
    [ret  |-> CASE outcome = "no_key" -> NonePair
                [] outcome \in {"bad_status", "transport_failure"} -> NonePair
                [] outcome = "route" ->
                       IF origin = destination
                       THEN Tuple(Route(0, 0), Details(0, 0))
                       ELSE Tuple(Route(0, 4 * BUFFER_METERS), Details(5, 2))
                [] OTHER -> BareNone,
     opts |-> routing_options,
     seen |-> "n/a"]

get_osm_route(origin, destination, outcome, routing_options) ==
    [ret  |-> CASE outcome \in {"bad_status", "transport_failure"} -> NonePair
                [] outcome = "route" ->
                       IF origin = destination
                       THEN Tuple(Route(0, 0), Details(0, 0))
                       ELSE Tuple(Route(2 * BUFFER_METERS, 5 * BUFFER_METERS),
                                  Details(6, 3))
                [] OTHER -> BareNone,
     opts |-> DictPop(routing_options, "strategy"),
     seen |-> "n/a"]

\* A counter that counts the responses that hold a route.
GhCounts_RoutesOnly(outcome) == outcome = "route"

\* Whether get_graphhopper_route reaches _update_gh_usage.
GhCounts(outcome) == outcome \in {"route", "empty"}

get_graphhopper_route(origin, destination, outcome, routing_options) ==
    LET strat     == DictGet(routing_options, "strategy", "fastest")
        weighting == IF strat = "fastest" THEN "fastest" ELSE "shortest"
    IN  [ret  |-> IF outcome # "route" THEN NonePair
                  ELSE IF origin = destination
                  THEN Tuple(Route(0, 0), Details(0, 0))
                  ELSE Tuple(Route(2 * BUFFER_METERS, 5 * BUFFER_METERS), Details(6, 3)),
         opts |-> IF outcome = "no_key" THEN routing_options
                  ELSE DictPop(routing_options, "strategy"),
         seen |-> IF outcome = "no_key" THEN "n/a" ELSE weighting]

\* _update_gh_usage, for calls made on one day.
update_gh_usage(count) == count + 1

(***************************************************************************)
(* Pure helpers of data_processing.py.                                     *)
(***************************************************************************)
\* int((current / total) * 100): the whole percentage, which the float
\* quotient gives for the totals in use (4, 5, 7 steps, and 100 of 100).
log_progress(current, total) ==
    [type |-> "progress", progress |-> (current * 100) \div total]

\* geometry.length
Length(route) == route.hi - route.lo

Max(a, b) == IF a >= b THEN a ELSE b
Min(a, b) == IF a <= b THEN a ELSE b

\* base.buffer(buffer_size).intersection(other).length: the length of the other
\* route that lies within buffer_size of the base route.
IntersectionLength(base_route, other_route, buffer_size) ==
    Max(0, Min(base_route.hi + buffer_size, other_route.hi)
             - Max(base_route.lo - buffer_size, other_route.lo))

\* a / b; NaN stands for the quotient by zero (nan or inf, no number).
NaN == -1
Div(a, b) == IF b = 0 THEN NaN ELSE a \div b

\* A scorer that divides whatever the base length is.
calculate_coverage_Unguarded(base_route, other_route, buffer_size) ==
    Div(IntersectionLength(base_route, other_route, buffer_size) * 100,
        Length(base_route))

\* Coverage of other_route on the buffered base route, in whole percent.
calculate_coverage(base_route, other_route, buffer_size) ==
    IF ~other_route.present THEN 0
    ELSE IF Length(base_route) = 0 THEN 0
    ELSE Div(IntersectionLength(base_route, other_route, buffer_size) * 100,
             Length(base_route))

\* generate_random_points_in_bbox(bbox, 2): a point of the box for the
\* origin and one for the destination.
generate_random_points_in_bbox(bbox) ==
    << <<bbox[1], bbox[2]>>, <<bbox[3], bbox[4]>> >>

\* What a provider's nearest-road lookup does with one request.
SnapFailures == {"transport_failure", "bad_status", "no_items", "no_position"}
SnapLookups == SnapFailures \cup {"position"}
KeyedSnapLookups == SnapLookups \cup {"no_key"}

\* The position the lookup reports: the roads of the grid run along its
\* diagonal.
NearestRoad(point) == <<point[1], point[1]>>

\* A snapper that hands back nothing when the lookup fails.
NoPoint == <<>>
snap_to_road_here_NoFallback(point, lookup) ==
    IF lookup = "position" THEN NearestRoad(point) ELSE NoPoint

\* snap_to_road_here: the reported position, or the point it was given.
snap_to_road_here(point, lookup) ==
    CASE lookup = "no_key" -> point
      [] lookup = "position" -> NearestRoad(point)
      [] lookup \in {"transport_failure", "bad_status"} -> point
      [] OTHER -> point

\* snap_to_road_osrm: the snapped point, or the original point when the lookup
\* fails.
snap_to_road_osrm(point, lookup) ==
    IF lookup = "position" THEN NearestRoad(point) ELSE point

EmptyStats == [k \in {} |-> 0]

IdleFutures == [p \in Providers |-> [st |-> "idle", pair |-> -1, ret |-> NonePair]]
NothingReturned == [k \in 0..(NUM_ROUTES - 1) |-> [p \in Providers |-> "unset"]]
\* "route", "absent" for (None, None), "None" for a bare None.
Kind(ret) == IF ret.kind = "None" THEN "None"
             ELSE IF ret.route.present THEN "route" ELSE "absent"
UnseenStrategies == [k \in 0..(NUM_ROUTES - 1) |-> [google |-> "unset", osm |-> "unset"]]
\* A file of data/: missing, or a GeoJSON feature collection; `fresh` tells a
\* file this run wrote from one an earlier run left.
NoFile == [type |-> "missing", features |-> <<>>, fresh |-> FALSE]
FeatureCollection(data) == [type |-> "FeatureCollection", features |-> data, fresh |-> TRUE]
Stale(file) == [file EXCEPT !.fresh = FALSE]
\* data/ before the first run; `written` tells whether this run wrote stats.json.
NoFiles == [written |-> FALSE, google_routes |-> NoFile, here_routes |-> NoFile,
            osm_routes |-> NoFile, od_points |-> NoFile, stats |-> EmptyStats]

(***************************************************************************)
(* app.py: the request handlers.  A handler runs in its own thread of the  *)
(* threaded server; the busy check and the rest of the handler are two     *)
(* steps, and other threads may run between them.                          *)
(***************************************************************************)
Threads == {1, 2}
Streams == {1}
Strategies == {"shortest", "fastest"}
\* osm_provider of a request body: the two names the front end sends, and a
\* name of no backend.
OsmProviders == {"osrm", "graphhopper", "valhalla"}

\* bbox of a request body: usable, not parseable, min > max, too short, missing.
BBoxInputs == { <<"1", "1", "2", "2">>, <<"x", "1", "2", "2">>,
                <<"2", "2", "1", "1">>, <<"1", "1", "2">>, <<>> }
\* origin or destination of a request body: usable, not parseable, too short, missing.
PointInputs == { <<"1", "1">>, <<"2", "2">>, <<"x", "1">>, <<"1">>, <<>> }

CompareRequests ==
    [bbox : BBoxInputs, strategy : Strategies, osm_provider : OsmProviders]
SingleRequests ==
    {r \in [origin : PointInputs, destination : PointInputs,
            strategy : Strategies, osm_provider : OsmProviders] :
        \* coincident and distinct endpoints, and each kind of malformed one
        r.origin = <<"1", "1">> \/ r.destination = <<"1", "1">>}

\* stdout=subprocess.PIPE: the lines the pipe between the subprocess and the
\* server holds before a write to it blocks.
PipeCapacity == 1

\* `lines` is the number of lines the run prints in all, known once it prints
\* the first.
NewProc(cmd) ==
    [argv |-> cmd, status |-> "running", lines |-> 0, emitted |-> 0, unread |-> 0,
     closed |-> FALSE, saved |-> FALSE]

\* `process and process.poll() is None`
Busy == process # None /\ procs[process].status = "running"

\* subprocess.Popen(cmd, ...) assigned to the global.
Popen(cmd) ==
    /\ procs' = Append(procs, NewProc(cmd))
    /\ process' = Len(procs) + 1

Respond(t, r) ==
    /\ resp' = [resp EXCEPT ![t] = r]
    /\ tpc' = [tpc EXCEPT ![t] = "idle"]

\* A rejection that also drops the handle of the active run.
RejectBusy_DropsHandle(t) ==
    /\ Respond(t, "busy")
    /\ process' = None
    /\ UNCHANGED procs

\* The rejection of a request that finds a run active.
RejectBusy(t) ==
    /\ Respond(t, "busy")
    /\ UNCHANGED <<process, procs>>

\* The first statement of compare, compare_places and calculate_single.
BusyCheck(t, handler) ==
    /\ tpc[t] = "idle"
    /\ nreq < MaxRequests
    /\ nreq' = nreq + 1
    /\ IF Busy
       THEN RejectBusy(t)
       ELSE /\ tpc' = [tpc EXCEPT ![t] = handler]
            /\ UNCHANGED <<process, procs, resp>>
    /\ UNCHANGED <<treq, gpc, gout, received>>

\* A check of presence alone.
BadBBox_PresenceOnly(bbox) == bbox = <<>>

\* `not bbox or len(bbox) != 4`
BadBBox(bbox) == bbox = <<>> \/ Len(bbox) # 4

compare(t, data) ==
    /\ tpc[t] = "compare"
    /\ treq' = [treq EXCEPT ![t] = [handler |-> "compare", body |-> data]]
    /\ IF BadBBox(data.bbox)
       THEN Respond(t, "invalid") /\ UNCHANGED <<process, procs>>
       ELSE /\ Popen(<<"data_processing.py">> \o data.bbox
                        \o <<data.strategy, data.osm_provider>>)
            /\ Respond(t, "success")
    /\ UNCHANGED <<nreq, gpc, gout, received>>

compare_places(t, data) ==
    /\ tpc[t] = "compare_places"
    /\ treq' = [treq EXCEPT ![t] = [handler |-> "compare_places", body |-> data]]
    /\ IF BadBBox(data.bbox)
       THEN Respond(t, "invalid") /\ UNCHANGED <<process, procs>>
       ELSE /\ Popen(<<"data_processing.py", "--places">> \o data.bbox
                        \o <<data.strategy, data.osm_provider>>)
            /\ Respond(t, "success")
    /\ UNCHANGED <<nreq, gpc, gout, received>>

BadPoints(origin, destination) ==
    \/ origin = <<>>
    \/ destination = <<>>
    \/ Len(origin) # 2
    \/ Len(destination) # 2

calculate_single(t, data) ==
    /\ tpc[t] = "calculate_single"
    /\ treq' = [treq EXCEPT ![t] = [handler |-> "calculate_single", body |-> data]]
    /\ IF BadPoints(data.origin, data.destination)
       THEN Respond(t, "invalid") /\ UNCHANGED <<process, procs>>
       ELSE /\ Popen(<<"data_processing.py", "--manual">> \o data.origin
                        \o data.destination
                        \o <<data.strategy, data.osm_provider>>)
            /\ Respond(t, "success")
    /\ UNCHANGED <<nreq, gpc, gout, received>>

(***************************************************************************)
(* data_processing.py: the subprocess procs[1].                            *)
(***************************************************************************)
\* A step count that leaves out the setup and the saving step.
total_steps_PairsOnly == NUM_ROUTES

total_steps == NUM_ROUTES + 2

Exit ==
    /\ procs' = [procs EXCEPT ![1].status = "exited"]
    /\ UNCHANGED <<process, tpc, resp, treq, nreq, gpc, gout, received, pureVars>>

Running == Len(procs) >= 1 /\ procs[1].status = "running"

\* here_opts, google_opts, osm_opts as both comparators build them.
HereOpts(strat) == IF strat = "shortest" THEN {<<"routingMode", "short">>} ELSE {}
StrategyOpts(strat) == {<<"strategy", strat>>}

\* __main__, RANDOM mode up to the first statement of process_routes.
MainRandom(a) ==
    LET floats == [k \in 1..4 |-> ParseFloat(a[k + 1])]
    IN  /\ mode' = "batch"
        /\ current_bbox' = IF \E k \in 1..4 : floats[k] = NaF THEN BBOX ELSE floats
        /\ strategy' = a[6]
        /\ osm_provider' = a[7]
        /\ state' = "INIT"
        /\ out' = Append(out, log_progress(0, total_steps))
        /\ UNCHANGED <<appVars, pureVars, fpc, i, origins, destinations, google_routes,
                       here_routes, osm_routes, od_points, stats, google_opts,
                       here_opts, osm_opts, fut, calls, seen, returned, files, gh_usage>>

\* __main__, MANUAL mode up to the thread pool of calculate_single_route_comparison.
MainManual(a) ==
    LET floats == [k \in 1..4 |-> ParseFloat(a[k + 2])]
    IN  IF \E k \in 1..4 : floats[k] = NaF
        THEN /\ state' = "ABORTED"
             /\ mode' = "manual"
             /\ Exit
             /\ UNCHANGED <<fpc, i, current_bbox, strategy, osm_provider, origins,
                            destinations, google_routes, here_routes, osm_routes,
                            od_points, stats, google_opts, here_opts, osm_opts, fut,
                            calls, seen, returned, out, files, gh_usage>>
        ELSE /\ mode' = "manual"
             /\ origins' = << <<floats[1], floats[2]>> >>
             /\ destinations' = << <<floats[3], floats[4]>> >>
             /\ strategy' = a[7]
             /\ osm_provider' = a[8]
             /\ google_routes' = <<>>
             /\ here_routes' = <<>>
             /\ osm_routes' = <<>>
             /\ stats' = EmptyStats
             /\ here_opts' = HereOpts(a[7])
             /\ google_opts' = StrategyOpts(a[7])
             /\ osm_opts' = StrategyOpts(a[7])
             /\ state' = "FETCHING"
             /\ fpc' = "submit_google"
             /\ i' = 0
             /\ UNCHANGED <<appVars, pureVars, current_bbox, od_points, fut, calls, seen, returned, out,
                            files, gh_usage>>

\* __main__ with any other command line: sys.exit(1).
MainInvalid ==
    /\ state' = "ABORTED"
    /\ Exit
    /\ UNCHANGED <<mode, fpc, i, current_bbox, strategy, osm_provider, origins,
                   destinations, google_routes, here_routes, osm_routes, od_points,
                   stats, google_opts, here_opts, osm_opts, fut, calls, seen, returned, out,
                   files, gh_usage>>

Main ==
    /\ Running
    /\ state = "unborn"
    /\ LET a == procs[1].argv
       IN  CASE Len(a) = 7 -> MainRandom(a)
             [] Len(a) = 8 /\ a[2] = "--manual" -> MainManual(a)
             [] OTHER -> MainInvalid

\* process_routes: the step 1 progress event.
StartGenerating ==
    /\ Running
    /\ state = "INIT"
    /\ state' = "GENERATING_PAIRS"
    /\ out' = Append(out, log_progress(1, total_steps))
    /\ UNCHANGED <<appVars, pureVars, mode, fpc, i, current_bbox, strategy, osm_provider,
                   origins, destinations, google_routes, here_routes, osm_routes,
                   od_points, stats, google_opts, here_opts, osm_opts, fut, calls,
                   seen, returned, files, gh_usage>>

\* One pass of `while len(origins) < NUM_ROUTES`: the snapped origin and destination.
SampledPair(bbox, lookups) ==
    LET raw == generate_random_points_in_bbox(bbox)
    IN  [origin |-> snap_to_road_osrm(raw[1], lookups[1]),
         dest |-> snap_to_road_osrm(raw[2], lookups[2])]

\* process_routes: the pairs, the empty collections and the options.
GeneratePairs ==
    /\ Running
    /\ state = "GENERATING_PAIRS"
    /\ \E lookups \in [1..2 -> SnapLookups] :
         /\ origins' = [k \in 1..NUM_ROUTES |-> SampledPair(current_bbox, lookups).origin]
         /\ destinations' = [k \in 1..NUM_ROUTES |-> SampledPair(current_bbox, lookups).dest]
    /\ google_routes' = <<>>
    /\ here_routes' = <<>>
    /\ osm_routes' = <<>>
    /\ od_points' = <<>>
    /\ stats' = EmptyStats
    /\ here_opts' = HereOpts(strategy)
    /\ google_opts' = StrategyOpts(strategy)
    /\ osm_opts' = StrategyOpts(strategy)
    /\ state' = "FETCHING"
    /\ fpc' = "begin"
    /\ i' = 0
    /\ UNCHANGED <<appVars, pureVars, mode, current_bbox, strategy, osm_provider, fut, calls,
                   seen, returned, out, files, gh_usage>>

\* process_routes: the head of the loop body for pair i.
FetchBegin ==
    /\ Running
    /\ state = "FETCHING" /\ mode = "batch" /\ fpc = "begin"
    /\ out' = Append(out, log_progress(i + 2, total_steps))
    /\ od_points' = od_points \o
           << [pair_id |-> i, type |-> "origin", geometry |-> origins[i + 1]],
              [pair_id |-> i, type |-> "destination", geometry |-> destinations[i + 1]] >>
    /\ fpc' = "submit_google"
    /\ UNCHANGED <<appVars, pureVars, state, mode, i, current_bbox, strategy, osm_provider,
                   origins, destinations, google_routes, here_routes, osm_routes,
                   stats, google_opts, here_opts, osm_opts, fut, calls, seen, returned, files,
                   gh_usage>>

\* executor.submit(adapter, origin, destination, opts)
Submit(p, adapter, next) ==
    /\ fut' = [fut EXCEPT ![p] = [st |-> "running", pair |-> i, ret |-> NonePair]]
    /\ calls' = calls \cup {[provider |-> adapter, pair |-> i,
                             origin |-> origins[i + 1],
                             destination |-> destinations[i + 1]]}
    /\ fpc' = next
    /\ UNCHANGED <<appVars, pureVars, state, mode, i, current_bbox, strategy, osm_provider,
                   origins, destinations, google_routes, here_routes, osm_routes,
                   od_points, stats, google_opts, here_opts, osm_opts, seen, returned, out,
                   files, gh_usage>>

SubmitGoogle ==
    /\ Running
    /\ state = "FETCHING" /\ fpc = "submit_google"
    /\ Submit("google", "google", "submit_here")

SubmitHere ==
    /\ Running
    /\ state = "FETCHING" /\ fpc = "submit_here"
    /\ Submit("here", "here", "submit_osm")

\* A choice that takes OSRM by its name and GraphHopper otherwise.
OsmAdapter_OsrmByName(provider) ==
    IF provider = "osrm" THEN "osrm" ELSE "graphhopper"

\* `if osm_provider == 'graphhopper': ... else: ...`
OsmAdapter(provider) ==
    IF provider = "graphhopper" THEN "graphhopper" ELSE "osrm"

SubmitOsm ==
    /\ Running
    /\ state = "FETCHING" /\ fpc = "submit_osm"
    /\ Submit("osm", OsmAdapter(osm_provider), "result_google")

Done(p, r) == [fut EXCEPT ![p].st = "done", ![p].ret = r]

\* A worker thread runs get_google_route to its return.
RunGoogle ==
    /\ Running
    /\ fut["google"].st = "running"
    /\ \E outcome \in Outcomes :
         LET r == get_google_route(origins[fut["google"].pair + 1],
                      destinations[fut["google"].pair + 1], outcome, google_opts)
         IN  /\ fut' = Done("google", r.ret)
             /\ returned' = [returned EXCEPT ![fut["google"].pair]["google"] = Kind(r.ret)]
             /\ google_opts' = r.opts
             /\ seen' = [seen EXCEPT ![fut["google"].pair].google = r.seen]
    /\ UNCHANGED <<appVars, pureVars, state, mode, fpc, i, current_bbox, strategy, osm_provider,
                   origins, destinations, google_routes, here_routes, osm_routes,
                   od_points, stats, here_opts, osm_opts, calls, out, files, gh_usage>>

\* A worker thread runs get_here_route to its return.
RunHere ==
    /\ Running
    /\ fut["here"].st = "running"
    /\ \E outcome \in KeyedOutcomes :
         LET r == get_here_route(origins[fut["here"].pair + 1],
                      destinations[fut["here"].pair + 1], outcome, here_opts)
         IN  /\ fut' = Done("here", r.ret)
             /\ returned' = [returned EXCEPT ![fut["here"].pair]["here"] = Kind(r.ret)]
             /\ here_opts' = r.opts
    /\ UNCHANGED <<appVars, pureVars, state, mode, fpc, i, current_bbox, strategy, osm_provider,
                   origins, destinations, google_routes, here_routes, osm_routes,
                   od_points, stats, google_opts, osm_opts, calls, seen, out, files,
                   gh_usage>>

\* A worker thread runs get_osm_route to its return.
RunOsrm ==
    /\ Running
    /\ fut["osm"].st = "running"
    /\ osm_provider # "graphhopper"
    /\ \E outcome \in Outcomes :
         LET r == get_osm_route(origins[fut["osm"].pair + 1],
                      destinations[fut["osm"].pair + 1], outcome, osm_opts)
         IN  /\ fut' = Done("osm", r.ret)
             /\ returned' = [returned EXCEPT ![fut["osm"].pair]["osm"] = Kind(r.ret)]
             /\ osm_opts' = r.opts
    /\ UNCHANGED <<appVars, pureVars, state, mode, fpc, i, current_bbox, strategy, osm_provider,
                   origins, destinations, google_routes, here_routes, osm_routes,
                   od_points, stats, google_opts, here_opts, calls, seen, out, files,
                   gh_usage>>

\* A worker thread runs get_graphhopper_route to its return.
RunGraphhopper ==
    /\ Running
    /\ fut["osm"].st = "running"
    /\ osm_provider = "graphhopper"
    /\ \E outcome \in KeyedOutcomes :
         LET r == get_graphhopper_route(origins[fut["osm"].pair + 1],
                      destinations[fut["osm"].pair + 1], outcome, osm_opts)
         IN  /\ fut' = Done("osm", r.ret)
             /\ returned' = [returned EXCEPT ![fut["osm"].pair]["osm"] = Kind(r.ret)]
             /\ osm_opts' = r.opts
             /\ seen' = [seen EXCEPT ![fut["osm"].pair].osm = r.seen]
             /\ gh_usage' = IF GhCounts(outcome) THEN update_gh_usage(gh_usage)
                            ELSE gh_usage
    /\ UNCHANGED <<appVars, pureVars, state, mode, fpc, i, current_bbox, strategy, osm_provider,
                   origins, destinations, google_routes, here_routes, osm_routes,
                   od_points, stats, google_opts, here_opts, calls, out, files>>

(***************************************************************************)
(* The join: future.result() for each provider in turn, then the merge of  *)
(* the pair's results.                                                     *)
(***************************************************************************)
\* A result() that does not block on a call still running.
Joined_NoWait(p) == fut[p].st # "idle"

\* future.result() returns once the call has completed.
Joined(p) == fut[p].st = "done"

\* `a, b = future.result()` raises TypeError on a bare None.
Unpacks(p) == fut[p].ret.kind = "tuple"

\* A pool that is left with shutdown(wait=False).
Shutdown_NoWait == TRUE

\* ThreadPoolExecutor.__exit__: shutdown(wait=True).
ShutdownWaits == \A p \in Providers : fut[p].st # "running"

\* An entry that is numbered 0 whatever its pair.
RouteEntry_FirstId(ret, id) ==
    [route_id |-> 0, geometry |-> ret.route,
     distance |-> ret.details.distance, duration |-> ret.details.duration]

RouteEntry(ret, id) ==
    [route_id |-> id, geometry |-> ret.route,
     distance |-> ret.details.distance, duration |-> ret.details.duration]

\* A merge that stores an entry whether or not a route came back.
AppendRoute_Always(coll, ret, id) == Append(coll, RouteEntry(ret, id))

\* `if route: routes.append({... 'route_id': id ...})`
AppendRoute(coll, ret, id) ==
    IF ret.route.present THEN Append(coll, RouteEntry(ret, id)) ELSE coll

StatEntry(g, h, o) ==
    [here_coverage |-> calculate_coverage(g.route, h.route, BUFFER_METERS),
     osm_coverage |-> calculate_coverage(g.route, o.route, BUFFER_METERS),
     google_details |-> g.details,
     here_details |-> h.details,
     osm_details |-> o.details]

\* Statistics that get an entry for every pair, zero-filled without a reference.
StatsWith_ZeroFilled(st, id, g, h, o) ==
    (id :> StatEntry(g, h, o)) @@ st

\* `if google_route: stats[id] = {...}`
StatsWith(st, id, g, h, o) ==
    IF g.route.present THEN (id :> StatEntry(g, h, o)) @@ st ELSE st

ResultGoogle ==
    /\ Running
    /\ state = "FETCHING" /\ fpc = "result_google"
    /\ Joined("google")
    /\ fpc' = "result_here"
    /\ UNCHANGED <<appVars, pureVars, state, mode, i, current_bbox, strategy, osm_provider,
                   origins, destinations, google_routes, here_routes, osm_routes,
                   od_points, stats, google_opts, here_opts, osm_opts, fut, calls,
                   seen, returned, out, files, gh_usage>>

ResultHere ==
    /\ Running
    /\ state = "FETCHING" /\ fpc = "result_here"
    /\ Joined("here")
    /\ fpc' = IF Unpacks("here") THEN "result_osm" ELSE "raise"
    /\ UNCHANGED <<appVars, pureVars, state, mode, i, current_bbox, strategy, osm_provider,
                   origins, destinations, google_routes, here_routes, osm_routes,
                   od_points, stats, google_opts, here_opts, osm_opts, fut, calls,
                   seen, returned, out, files, gh_usage>>

\* The collections and the statistics with the results of pair `id` merged in.
Merge(id) ==
    /\ google_routes' = AppendRoute(google_routes, fut["google"].ret, id)
    /\ here_routes' = AppendRoute(here_routes, fut["here"].ret, id)
    /\ osm_routes' = AppendRoute(osm_routes, fut["osm"].ret, id)
    /\ stats' = StatsWith(stats, id, fut["google"].ret, fut["here"].ret, fut["osm"].ret)

\* process_routes: the third result, the merge, and the end of the loop body;
\* past the last pair, the end of the pool and the "Saving results..." event.
ResultOsmBatch ==
    /\ Running
    /\ state = "FETCHING" /\ mode = "batch" /\ fpc = "result_osm"
    /\ Joined("osm")
    /\ IF Unpacks("osm")
       THEN /\ Merge(i)
            /\ i' = i + 1
            /\ IF i + 1 < NUM_ROUTES
               THEN /\ fpc' = "begin"
                    /\ UNCHANGED <<state, out>>
               ELSE /\ ShutdownWaits
                    /\ fpc' = "left"
                    /\ state' = "SAVING"
                    /\ out' = Append(out, log_progress(total_steps, total_steps))
       ELSE /\ fpc' = "raise"
            /\ UNCHANGED <<state, i, out, google_routes, here_routes, osm_routes, stats>>
    /\ UNCHANGED <<appVars, pureVars, mode, current_bbox, strategy, osm_provider, origins,
                   destinations, od_points, google_opts, here_opts, osm_opts, fut,
                   calls, seen, returned, files, gh_usage>>

\* calculate_single_route_comparison: the third result, the merge and the
\* return; __main__ then prints the completion event and the result.
ResultOsmSingle ==
    /\ Running
    /\ state = "FETCHING" /\ mode = "manual" /\ fpc = "result_osm"
    /\ Joined("osm")
    /\ IF Unpacks("osm")
       THEN /\ ShutdownWaits
            /\ Merge(0)
            /\ fpc' = "left"
            /\ state' = "DONE"
            /\ out' = out \o << log_progress(100, 100),
                                [type |-> "manual_result", progress |-> 100] >>
            /\ Exit
       ELSE /\ fpc' = "raise"
            /\ UNCHANGED <<appVars, pureVars, state, out, google_routes, here_routes,
                           osm_routes, stats>>
    /\ UNCHANGED <<mode, i, current_bbox, strategy, osm_provider, origins,
                   destinations, od_points, google_opts, here_opts, osm_opts, fut,
                   calls, seen, returned, files, gh_usage>>

\* The TypeError leaves the `with` block, which waits for the calls still
\* running, and ends the process with a traceback.
Unwind ==
    /\ Running
    /\ state = "FETCHING" /\ fpc = "raise"
    /\ ShutdownWaits
    /\ state' = "CRASHED"
    /\ fpc' = "left"
    /\ Exit
    /\ UNCHANGED <<mode, i, current_bbox, strategy, osm_provider, origins,
                   destinations, google_routes, here_routes, osm_routes, od_points,
                   stats, google_opts, here_opts, osm_opts, fut, calls, seen, returned, out,
                   files, gh_usage>>

\* A save that writes nothing for an empty collection.
save_gdf_to_geojson_SkipEmpty(data, filename) ==
    IF data # <<>> THEN FeatureCollection(data) ELSE files[filename]

\* save_gdf_to_geojson: the collection written with to_file, or an empty
\* feature collection dumped over the old file.
save_gdf_to_geojson(data, filename) ==
    IF data # <<>> THEN FeatureCollection(data) ELSE FeatureCollection(<<>>)

\* __main__, RANDOM mode after process_routes returned.
SaveResults ==
    /\ Running
    /\ state = "SAVING"
    /\ files' = [written |-> TRUE,
                 google_routes |-> save_gdf_to_geojson(google_routes, "google_routes"),
                 here_routes |-> save_gdf_to_geojson(here_routes, "here_routes"),
                 osm_routes |-> save_gdf_to_geojson(osm_routes, "osm_routes"),
                 od_points |-> IF od_points # <<>> THEN FeatureCollection(od_points)
                               ELSE files.od_points,
                 stats |-> stats]
    /\ out' = Append(out, log_progress(100, 100))
    /\ state' = "DONE"
    /\ Exit
    /\ UNCHANGED <<mode, fpc, i, current_bbox, strategy, osm_provider, origins,
                   destinations, google_routes, here_routes, osm_routes, od_points,
                   stats, google_opts, here_opts, osm_opts, fut, calls, seen, returned, gh_usage>>

(***************************************************************************)
(* Spec: one request and the run it starts.                                *)
(***************************************************************************)
Handlers == {"compare", "compare_places", "calculate_single"}

\* data/ as an earlier batch left it: a route of every provider and the
\* statistics of its pair 0.
PreviousFiles ==
    LET from == <<BBOX[1], BBOX[2]>>
        to   == <<BBOX[3], BBOX[4]>>
        g == get_google_route(from, to, "route", StrategyOpts("fastest")).ret
        h == get_here_route(from, to, "route", {}).ret
        o == get_osm_route(from, to, "route", {}).ret
    IN  [written |-> FALSE,
         google_routes |-> Stale(FeatureCollection(<<RouteEntry(g, 0)>>)),
         here_routes |-> Stale(FeatureCollection(<<RouteEntry(h, 0)>>)),
         osm_routes |-> Stale(FeatureCollection(<<RouteEntry(o, 0)>>)),
         od_points |-> Stale(FeatureCollection(
             << [pair_id |-> 0, type |-> "origin", geometry |-> <<BBOX[1], BBOX[2]>>],
                [pair_id |-> 0, type |-> "destination", geometry |-> <<BBOX[3], BBOX[4]>>] >>)),
         stats |-> (0 :> StatEntry(g, h, o))]

\* The server after start-up, with the /progress requests of `clients` to come.
ServerStart(clients) ==
    /\ process = None
    /\ procs = <<>>
    /\ tpc = [t \in Threads |-> "idle"]
    /\ resp = [t \in Threads |-> "none"]
    /\ treq = [t \in Threads |-> [handler |-> "none", body |-> [bbox |-> <<>>]]]
    /\ nreq = 0
    /\ gpc = [g \in clients |-> "idle"]
    /\ gout = [g \in clients |-> None]
    /\ received = [g \in clients |-> <<>>]
    /\ state = "unborn"
    /\ mode = "none"
    /\ fpc = "none"
    /\ i = 0
    /\ current_bbox = BBOX
    /\ strategy = "none"
    /\ osm_provider = "none"
    /\ origins = <<>>
    /\ destinations = <<>>
    /\ google_routes = <<>>
    /\ here_routes = <<>>
    /\ osm_routes = <<>>
    /\ od_points = <<>>
    /\ stats = EmptyStats
    /\ google_opts = {}
    /\ here_opts = {}
    /\ osm_opts = {}
    /\ fut = IdleFutures
    /\ calls = {}
    /\ seen = UnseenStrategies
    /\ returned = NothingReturned
    /\ out = <<>>
    /\ files \in {NoFiles, PreviousFiles}
    /\ gh_usage = 0

ServerInit == ServerStart(Streams)

Unset == [set |-> FALSE, value |-> 0]
Returned(v) == [set |-> TRUE, value |-> v]

\* No route is being scored outside the run.
CoverageIdle ==
    /\ reference = NoRoute
    /\ candidate = NoRoute
    /\ coverage = Unset

\* The processes that call get_graphhopper_route: comparator subprocesses
\* that are active together.
Callers == {1, 2}

MissingFile == [state |-> "missing", count |-> 0]
EmptyFile == [state |-> "empty", count |-> 0]
UsageJson(n) == [state |-> "json", count |-> n]

\* No usage file yet, and no process inside _update_gh_usage.
UsageIdle ==
    /\ usage_file = MissingFile
    /\ upc = [c \in Callers |-> "idle"]
    /\ usage = [c \in Callers |-> 0]
    /\ updates = [c \in Callers |-> 0]
    /\ answers = [c \in Callers |-> <<>>]

\* No response is being read outside the run.
InstructionsIdle ==
    /\ called = "none"
    /\ texts = <<>>
    /\ instructions = Unset

\* No point is being snapped outside the run.
SnapIdle ==
    /\ snapper = "none"
    /\ snap_point = NoPoint
    /\ snap_lookup = "none"
    /\ snapped = [set |-> FALSE, value |-> NoPoint]

Init ==
    /\ ServerInit
    /\ SnapIdle
    /\ CoverageIdle
    /\ UsageIdle
    /\ InstructionsIdle

Request ==
    /\ nreq = 0
    /\ \E h \in Handlers : BusyCheck(1, h)
    /\ UNCHANGED <<runVars, pureVars>>

Handle ==
    /\ \/ \E data \in CompareRequests : compare(1, data)
       \/ \E data \in CompareRequests : compare_places(1, data)
       \/ \E data \in SingleRequests : calculate_single(1, data)
    /\ UNCHANGED <<runVars, pureVars>>

Fetch ==
    \/ FetchBegin
    \/ SubmitGoogle
    \/ SubmitHere
    \/ SubmitOsm
    \/ ResultGoogle
    \/ ResultHere
    \/ ResultOsmBatch
    \/ ResultOsmSingle
    \/ Unwind

Adapters ==
    \/ RunGoogle
    \/ RunHere
    \/ RunOsrm
    \/ RunGraphhopper

Next ==
    \/ Request
    \/ Handle
    \/ Main
    \/ StartGenerating
    \/ GeneratePairs
    \/ Fetch
    \/ Adapters
    \/ SaveResults

Spec == Init /\ [][Next]_vars

(***************************************************************************)
(* SpecApp: the threaded server.  Request threads and /progress streams    *)
(* interleave; a subprocess is seen from outside.                          *)
(***************************************************************************)
Procs == 1..Len(procs)

\* Whether the command line selects RANDOM or MANUAL mode of __main__.
RandomArgs(a) == Len(a) = 7
ManualArgs(a) == Len(a) = 8 /\ a[2] = "--manual"

\* A write to the pipe returns once the pipe has room for it.
HasRoom(p) == procs[p].unread < PipeCapacity

\* The subprocess prints a line (a progress event, a log record, the result).
ProcWrite(p) ==
    /\ procs[p].status = "running"
    /\ RandomArgs(procs[p].argv) \/ ManualArgs(procs[p].argv)
    /\ HasRoom(p)
    /\ \E n \in 1..MaxLines :
         /\ procs[p].emitted = 0 \/ n = procs[p].lines
         /\ procs[p].emitted < n
         /\ procs' = [procs EXCEPT ![p].lines = n, ![p].emitted = @ + 1,
                                   ![p].unread = @ + 1]
    /\ UNCHANGED <<process, tpc, resp, treq, nreq, gpc, gout, received>>

\* The subprocess ends after its last line; a batch has saved its results.
ProcExit(p) ==
    /\ procs[p].status = "running"
    /\ procs[p].emitted > 0
    /\ procs[p].emitted = procs[p].lines
    /\ procs' = [procs EXCEPT ![p].status = "exited",
                              ![p].saved = RandomArgs(procs[p].argv)]
    /\ UNCHANGED <<process, tpc, resp, treq, nreq, gpc, gout, received>>

\* The subprocess ends early: sys.exit(1), or an uncaught exception.
ProcAbort(p) ==
    /\ procs[p].status = "running"
    /\ procs[p].emitted = 0 \/ procs[p].emitted < procs[p].lines
    /\ procs' = [procs EXCEPT ![p].status = "exited"]
    /\ UNCHANGED <<process, tpc, resp, treq, nreq, gpc, gout, received>>

\* generate(): up to the iterator over process.stdout.
StreamOpen(g) ==
    /\ gpc[g] = "idle"
    /\ IF process = None
       THEN /\ gpc' = [gpc EXCEPT ![g] = "finished"]
            /\ UNCHANGED gout
       ELSE IF procs[process].closed
       THEN /\ gpc' = [gpc EXCEPT ![g] = "error"]
            /\ UNCHANGED gout
       ELSE /\ gpc' = [gpc EXCEPT ![g] = "reading"]
            /\ gout' = [gout EXCEPT ![g] = process]
    /\ UNCHANGED <<process, procs, tpc, resp, treq, nreq, received>>

\* generate(): one readline of the loop; at end of file the `with` closes stdout.
StreamRead(g) ==
    /\ gpc[g] = "reading"
    /\ LET p == gout[g]
       IN  IF procs[p].closed
           THEN /\ gpc' = [gpc EXCEPT ![g] = "error"]
                /\ UNCHANGED <<procs, received>>
           ELSE IF procs[p].unread > 0
           THEN /\ procs' = [procs EXCEPT ![p].unread = @ - 1]
                /\ received' = [received EXCEPT ![g] =
                       Append(@, <<p, procs[p].emitted - procs[p].unread + 1>>)]
                /\ UNCHANGED gpc
           ELSE /\ procs[p].status = "exited"
                /\ procs' = [procs EXCEPT ![p].closed = TRUE]
                /\ gpc' = [gpc EXCEPT ![g] = "wait"]
                /\ UNCHANGED received
    /\ UNCHANGED <<process, tpc, resp, treq, nreq, gout>>

\* generate(): process.wait() on the global.
StreamWait(g) ==
    /\ gpc[g] = "wait"
    /\ IF process = None
       THEN gpc' = [gpc EXCEPT ![g] = "error"]
       ELSE /\ procs[process].status = "exited"
            /\ gpc' = [gpc EXCEPT ![g] = "close"]
    /\ UNCHANGED <<process, procs, tpc, resp, treq, nreq, gout, received>>

\* generate(): the close event.
StreamClose(g) ==
    /\ gpc[g] = "close"
    /\ received' = [received EXCEPT ![g] = Append(@, <<0, 0>>)]
    /\ gpc' = [gpc EXCEPT ![g] = "clear"]
    /\ UNCHANGED <<process, procs, tpc, resp, treq, nreq, gout>>

\* generate(): `process = None`.
StreamClear(g) ==
    /\ gpc[g] = "clear"
    /\ process' = None
    /\ gpc' = [gpc EXCEPT ![g] = "finished"]
    /\ UNCHANGED <<procs, tpc, resp, treq, nreq, gout, received>>

\* The request bodies of SpecApp: a usable and an unusable one per handler.
AppCompareRequests ==
    {r \in CompareRequests :
        /\ r.bbox \in {<<"1", "1", "2", "2">>, <<>>}
        /\ r.strategy = "shortest" /\ r.osm_provider = "osrm"}
AppSingleRequests ==
    {r \in SingleRequests :
        /\ r.origin = <<"1", "1">> /\ r.destination \in {<<"2", "2">>, <<>>}
        /\ r.strategy = "shortest" /\ r.osm_provider = "osrm"}

AppRequest ==
    /\ \E t \in Threads, h \in Handlers : BusyCheck(t, h)
    /\ UNCHANGED <<runVars, pureVars>>

AppCompare ==
    /\ \E t \in Threads, data \in AppCompareRequests : compare(t, data)
    /\ UNCHANGED <<runVars, pureVars>>

AppComparePlaces ==
    /\ \E t \in Threads, data \in AppCompareRequests : compare_places(t, data)
    /\ UNCHANGED <<runVars, pureVars>>

AppCalculateSingle ==
    /\ \E t \in Threads, data \in AppSingleRequests : calculate_single(t, data)
    /\ UNCHANGED <<runVars, pureVars>>

AppHandle ==
    \/ AppCompare
    \/ AppComparePlaces
    \/ AppCalculateSingle

AppStreamOpen == (\E g \in Streams : StreamOpen(g)) /\ UNCHANGED <<runVars, pureVars>>
AppStreamRead == (\E g \in Streams : StreamRead(g)) /\ UNCHANGED <<runVars, pureVars>>
AppStreamWait == (\E g \in Streams : StreamWait(g)) /\ UNCHANGED <<runVars, pureVars>>
AppStreamClose == (\E g \in Streams : StreamClose(g)) /\ UNCHANGED <<runVars, pureVars>>
AppStreamClear == (\E g \in Streams : StreamClear(g)) /\ UNCHANGED <<runVars, pureVars>>

AppStream ==
    \/ AppStreamOpen
    \/ AppStreamRead
    \/ AppStreamWait
    \/ AppStreamClose
    \/ AppStreamClear

AppProcWrite == (\E p \in Procs : ProcWrite(p)) /\ UNCHANGED <<runVars, pureVars>>
AppProcExit == (\E p \in Procs : ProcExit(p)) /\ UNCHANGED <<runVars, pureVars>>
AppProcAbort == (\E p \in Procs : ProcAbort(p)) /\ UNCHANGED <<runVars, pureVars>>

AppProc ==
    \/ AppProcWrite
    \/ AppProcExit
    \/ AppProcAbort

NextApp ==
    \/ AppRequest
    \/ AppHandle
    \/ AppStream
    \/ AppProc

SpecApp == Init /\ [][NextApp]_vars

\* __main__ with a command line of neither mode: sys.exit(1).
AppProcUsage ==
    /\ \E p \in Procs :
         /\ ~(RandomArgs(procs[p].argv) \/ ManualArgs(procs[p].argv))
         /\ ProcAbort(p)
    /\ UNCHANGED <<runVars, pureVars>>

\* A subprocess that can print or end does so; nothing makes a client ask for
\* /progress, and nothing makes a run fail.
SpecAppFair ==
    /\ Init
    /\ [][NextApp]_vars
    /\ WF_vars(AppProcWrite)
    /\ WF_vars(AppProcExit)
    /\ WF_vars(AppProcUsage)

(***************************************************************************)
(* SpecProgress: comparison requests handled one at a time, and two        *)
(* clients that each request /progress once.                               *)
(***************************************************************************)
Clients == {1, 2}

InitProgress ==
    /\ ServerStart(Clients)
    /\ SnapIdle
    /\ CoverageIdle
    /\ UsageIdle
    /\ InstructionsIdle

ProgressRequest ==
    /\ BusyCheck(1, "compare")
    /\ UNCHANGED <<runVars, pureVars>>

ProgressCompare ==
    /\ \E data \in AppCompareRequests : compare(1, data)
    /\ UNCHANGED <<runVars, pureVars>>

ClientOpen == (\E g \in Clients : StreamOpen(g)) /\ UNCHANGED <<runVars, pureVars>>
ClientRead == (\E g \in Clients : StreamRead(g)) /\ UNCHANGED <<runVars, pureVars>>
ClientWait == (\E g \in Clients : StreamWait(g)) /\ UNCHANGED <<runVars, pureVars>>
ClientClose == (\E g \in Clients : StreamClose(g)) /\ UNCHANGED <<runVars, pureVars>>
ClientClear == (\E g \in Clients : StreamClear(g)) /\ UNCHANGED <<runVars, pureVars>>

NextProgress ==
    \/ ProgressRequest
    \/ ProgressCompare
    \/ ClientOpen
    \/ ClientRead
    \/ ClientWait
    \/ ClientClose
    \/ ClientClear
    \/ AppProcWrite
    \/ AppProcExit
    \/ AppProcAbort

SpecProgress == InitProgress /\ [][NextProgress]_vars

(***************************************************************************)
(* SpecCoverage: calculate_coverage applied to a reference route and a     *)
(* candidate drawn from the lines with end points on a grid of buffer      *)
(* widths.                                                                 *)
(***************************************************************************)
Coords == {k * BUFFER_METERS : k \in 0..MaxCoord}
CoverageRoutes == {r \in {Route(a, b) : a \in Coords, b \in Coords} : r.lo <= r.hi}

InitCoverage ==
    /\ ServerInit
    /\ SnapIdle
    /\ UsageIdle
    /\ InstructionsIdle
    /\ reference \in CoverageRoutes
    /\ candidate \in CoverageRoutes \cup {NoRoute}
    /\ coverage = Unset

\* calculate_coverage(google_gdf_proj, other_route, BUFFER_METERS)
Score ==
    /\ ~coverage.set
    /\ coverage' = Returned(calculate_coverage(reference, candidate, BUFFER_METERS))
    /\ UNCHANGED <<appVars, runVars, usageVars, instrVars, snapVars, reference, candidate>>

NextCoverage == Score

SpecCoverage == InitCoverage /\ [][NextCoverage]_vars

(***************************************************************************)
(* SpecUsage: _update_gh_usage, statement by statement, in processes that  *)
(* make their GraphHopper calls on the same day.                           *)
(***************************************************************************)
\* get_graphhopper_route up to its return, or up to the first statement of
\* _update_gh_usage, which starts with usage = {'date': today, 'count': 0}.
UsageEnter(c, outcome) ==
    /\ upc[c] = "idle"
    /\ Len(answers[c]) < MaxGhCalls
    /\ answers' = [answers EXCEPT ![c] = Append(@, outcome)]
    /\ IF GhCounts(outcome)
       THEN /\ usage' = [usage EXCEPT ![c] = 0]
            /\ upc' = [upc EXCEPT ![c] = "load"]
       ELSE UNCHANGED <<usage, upc>>
    /\ UNCHANGED <<usage_file, updates>>

\* `if os.path.exists(USAGE_FILE)`: json.load of the file; a file that does
\* not parse leaves the fresh count.
UsageLoad(c) ==
    /\ upc[c] = "load"
    /\ usage' = [usage EXCEPT ![c] = IF usage_file.state = "json"
                                     THEN usage_file.count ELSE 0]
    /\ upc' = [upc EXCEPT ![c] = "open"]
    /\ UNCHANGED <<usage_file, updates, answers>>

\* `usage['count'] += 1` and open(USAGE_FILE, 'w'), which truncates the file.
UsageOpen(c) ==
    /\ upc[c] = "open"
    /\ usage' = [usage EXCEPT ![c] = update_gh_usage(usage[c])]
    /\ usage_file' = EmptyFile
    /\ upc' = [upc EXCEPT ![c] = "dump"]
    /\ UNCHANGED <<updates, answers>>

\* json.dump(usage, f) and the close of the file.
UsageDump(c) ==
    /\ upc[c] = "dump"
    /\ usage_file' = UsageJson(usage[c])
    /\ updates' = [updates EXCEPT ![c] = @ + 1]
    /\ upc' = [upc EXCEPT ![c] = "idle"]
    /\ UNCHANGED <<usage, answers>>

\* The calls of processes that overlap are calls that reach the counter.
CallerEnter ==
    (\E c \in Callers : UsageEnter(c, "route")) /\ UNCHANGED <<appVars, runVars, covVars, instrVars, snapVars>>
CallerLoad ==
    (\E c \in Callers : UsageLoad(c)) /\ UNCHANGED <<appVars, runVars, covVars, instrVars, snapVars>>
CallerOpen ==
    (\E c \in Callers : UsageOpen(c)) /\ UNCHANGED <<appVars, runVars, covVars, instrVars, snapVars>>
CallerDump ==
    (\E c \in Callers : UsageDump(c)) /\ UNCHANGED <<appVars, runVars, covVars, instrVars, snapVars>>

NextUsage ==
    \/ CallerEnter
    \/ CallerLoad
    \/ CallerOpen
    \/ CallerDump

InitUsage ==
    /\ ServerInit
    /\ SnapIdle
    /\ CoverageIdle
    /\ UsageIdle
    /\ InstructionsIdle

SpecUsage == InitUsage /\ [][NextUsage]_vars

(***************************************************************************)
(* SpecGraphhopper: the GraphHopper calls of one process, one after the    *)
(* other, with everything the endpoint may do with each request.           *)
(***************************************************************************)
GraphhopperCall ==
    (\E outcome \in KeyedOutcomes : UsageEnter(1, outcome))
    /\ UNCHANGED <<appVars, runVars, covVars, instrVars, snapVars>>
GraphhopperLoad ==
    UsageLoad(1) /\ UNCHANGED <<appVars, runVars, covVars, instrVars, snapVars>>
GraphhopperOpen ==
    UsageOpen(1) /\ UNCHANGED <<appVars, runVars, covVars, instrVars, snapVars>>
GraphhopperDump ==
    UsageDump(1) /\ UNCHANGED <<appVars, runVars, covVars, instrVars, snapVars>>

NextGraphhopper ==
    \/ GraphhopperCall
    \/ GraphhopperLoad
    \/ GraphhopperOpen
    \/ GraphhopperDump

SpecGraphhopper == InitUsage /\ [][NextGraphhopper]_vars

(***************************************************************************)
(* SpecInstructions: the instructions each adapter puts into the details   *)
(* it returns, from the instruction texts of the steps of one response.     *)
(***************************************************************************)
\* list(dict.fromkeys(instructions)): the keys in the order of first insertion.
RECURSIVE FromKeys(_)
FromKeys(seq) ==
    IF seq = <<>> THEN <<>>
    ELSE LET front == FromKeys(SubSeq(seq, 1, Len(seq) - 1))
             last  == seq[Len(seq)]
         IN  IF \E n \in 1..Len(front) : front[n] = last
             THEN front ELSE Append(front, last)

\* `if plain_text: instructions.append(plain_text)`
RECURSIVE NonEmpty(_)
NonEmpty(seq) ==
    IF seq = <<>> THEN <<>>
    ELSE LET front == NonEmpty(SubSeq(seq, 1, Len(seq) - 1))
         IN  IF seq[Len(seq)] = "" THEN front ELSE Append(front, seq[Len(seq)])

\* get_google_route: the stripped html_instructions of the steps.
GoogleInstructions(steps) == FromKeys(NonEmpty(steps))
\* get_here_route: the instruction of each action of each section.
HereInstructions(actions) == FromKeys(NonEmpty(actions))
\* get_osm_route: the instruction built for each step of each leg.
OsrmInstructions(steps) == FromKeys(steps)
\* get_graphhopper_route: [item['text'] for item in path.get('instructions', [])]
GraphhopperInstructions(items) == items

AdapterNames == {"google", "here", "osrm", "graphhopper"}
Texts == {"A", "B", "C", ""}
Responses == UNION {[1..n -> Texts] : n \in 0..MaxInstructions}

\* The text get_osm_route builds for a step is never empty.
InitInstructions ==
    /\ ServerInit
    /\ SnapIdle
    /\ CoverageIdle
    /\ UsageIdle
    /\ called \in AdapterNames
    /\ texts \in Responses
    /\ called = "osrm" => \A n \in 1..Len(texts) : texts[n] # ""
    /\ instructions = Unset

\* The adapter builds the details of the route it returns.
Extract ==
    /\ ~instructions.set
    /\ instructions' = Returned(CASE called = "google" -> GoogleInstructions(texts)
                                   [] called = "here" -> HereInstructions(texts)
                                   [] called = "osrm" -> OsrmInstructions(texts)
                                   [] OTHER -> GraphhopperInstructions(texts))
    /\ UNCHANGED <<appVars, runVars, covVars, usageVars, snapVars, called, texts>>

NextInstructions == Extract

SpecInstructions == InitInstructions /\ [][NextInstructions]_vars

(***************************************************************************)
(* SpecSnap: a road snapper applied to one point, for every point of the   *)
(* grid and everything the nearest-road lookup may do.                     *)
(***************************************************************************)
Snappers == {"here", "osrm"}
GridPoints == (1..MaxCoord) \X (1..MaxCoord)

InitSnap ==
    /\ ServerInit
    /\ CoverageIdle
    /\ UsageIdle
    /\ InstructionsIdle
    /\ snapper \in Snappers
    /\ snap_point \in GridPoints
    /\ snap_lookup \in (IF snapper = "here" THEN KeyedSnapLookups ELSE SnapLookups)
    /\ snapped = [set |-> FALSE, value |-> NoPoint]

\* origin = snap_to_road_...(raw_origin)
Snap ==
    /\ ~snapped.set
    /\ snapped' = [set |-> TRUE,
                   value |-> IF snapper = "here"
                             THEN snap_to_road_here(snap_point, snap_lookup)
                             ELSE snap_to_road_osrm(snap_point, snap_lookup)]
    /\ UNCHANGED <<appVars, runVars, covVars, usageVars, instrVars, snapper,
                   snap_point, snap_lookup>>

NextSnap == Snap

SpecSnap == InitSnap /\ [][NextSnap]_vars

(***************************************************************************)
(* Claims about the server (SpecApp).                                      *)
(***************************************************************************)
RunningProcs == {p \in Procs : procs[p].status = "running"}

\* C1: under any interleaving of requests to the comparison endpoints and to
\* /progress, at most one comparator subprocess is running at any time.
C1_AtMostOneRunning == Cardinality(RunningProcs) <= 1

\* A step in which a request is answered by the busy check itself.
RejectionStep ==
    /\ nreq' = nreq + 1
    /\ tpc' = tpc
    /\ \E t \in Threads : resp'[t] = "busy"

\* C2: a request rejected as "already in progress" leaves the active run
\* untouched: the process handle and every subprocess (its command line, its
\* status, its output written and unread, its saved results) are unchanged, no
\* subprocess is started and no thread is left holding the request for later.
C2_RejectionChangesNothing ==
    [][RejectionStep =>
          /\ Busy
          /\ UNCHANGED <<process, procs, tpc, treq, gpc, gout, received, runVars>>]_vars

\* A request has been rejected while a run that has written output is active.
C2_Witness ==
    /\ \E t \in Threads : resp[t] = "busy"
    /\ \E p \in Procs : procs[p].status = "running" /\ procs[p].emitted > 0
    /\ process # None

(***************************************************************************)
(* Claims about one run (Spec).                                            *)
(***************************************************************************)
Pairs == 0..(NUM_ROUTES - 1)
Exited == Len(procs) >= 1 /\ procs[1].status = "exited"
InFlight == {p \in Providers : fut[p].st = "running"}
AllReturned(k) == \A p \in Providers : returned[k][p] # "unset"
\* The calls issued and not yet returned.
Pending == {c \in calls :
              returned[c.pair][IF c.provider \in {"osrm", "graphhopper"}
                               THEN "osm" ELSE c.provider] = "unset"}
\* The ids of the entries of a route collection.
Ids(coll) == {coll[n].route_id : n \in 1..Len(coll)}
\* Pair k has been merged into the collections and the statistics.
Merged(k) == IF mode = "batch" THEN k < i ELSE mode = "manual" /\ state = "DONE"

\* C3: per-provider failures never abort a batch: a batch run that has issued
\* an adapter call ends in DONE only, whatever the adapters return.
C3_BatchEndsDone ==
    (mode = "batch" /\ calls # {} /\ Exited) => state = "DONE"

\* C4: every adapter call returns a pair, (route, details) with both present or
\* (absent, absent), and never anything else.
C4_AdaptersReturnPairs ==
    \A p \in Providers :
        fut[p].st = "done" =>
            /\ fut[p].ret.kind = "tuple"
            /\ fut[p].ret.route.present <=> fut[p].ret.details.present

\* C5: in every state of a batch run and in the saved statistics, pair k has a
\* CoverageStat entry if and only if the pair has been merged and Google
\* returned a route for it; no entry is made for a pair without reference route.
C5_StatIffReference ==
    mode = "batch" =>
        /\ \A k \in Pairs :
              k \in DOMAIN stats <=> (Merged(k) /\ returned[k]["google"] = "route")
        /\ DOMAIN stats \subseteq Pairs
        /\ state = "DONE" =>
              DOMAIN files.stats = {k \in Pairs : returned[k]["google"] = "route"}

\* A finished batch in which pair 0 had no reference route and pair 1 had one.
C5_Witness ==
    /\ mode = "batch" /\ state = "DONE"
    /\ returned[0]["google"] = "absent"
    /\ DOMAIN files.stats = {1}

\* C6: a pair's route entries and its CoverageStat are written only after all
\* three adapter calls of the pair have returned, in a batch and in a single run.
C6_WrittenAfterJoin ==
    \A k \in Pairs :
        (k \in Ids(google_routes) \cup Ids(here_routes) \cup Ids(osm_routes)
                 \cup DOMAIN stats)
            => /\ AllReturned(k)
               /\ \A p \in Providers : ~(fut[p].st = "running" /\ fut[p].pair = k)

\* Pair 1 of a batch is merged, with a route of every provider and a CoverageStat.
C6_Witness ==
    /\ mode = "batch"
    /\ 1 \in Ids(google_routes) /\ 1 \in Ids(here_routes) /\ 1 \in Ids(osm_routes)
    /\ 1 \in DOMAIN stats

\* C7: at most three adapter calls are in flight, all for the pair being
\* fetched; no call of pair k+1 is issued before every call of pair k has
\* returned; none is in flight once the run has left the fetching phase.
C7_FanOutPerPair ==
    /\ Cardinality(Pending) <= 3
    /\ \A c \in Pending : c.pair = i /\ state = "FETCHING"
    /\ \A p \in InFlight : fut[p].pair = i /\ state = "FETCHING"
    /\ \A c \in calls : \A k \in Pairs : k < c.pair => AllReturned(k)

\* The three calls of pair 1 are in flight together.
C7_Witness ==
    /\ mode = "batch" /\ i = 1
    /\ Cardinality(Pending) = 3

\* The phases in the order of the state machine, FETCHING(k) as <<"FETCHING", k>>.
Phase == IF state = "FETCHING" THEN <<"FETCHING", i>> ELSE <<state, 0>>
PhaseStep ==
    \/ Phase = <<"unborn", 0>> /\ Phase' \in {<<"INIT", 0>>, <<"ABORTED", 0>>}
    \/ Phase = <<"INIT", 0>> /\ Phase' = <<"GENERATING_PAIRS", 0>>
    \/ Phase = <<"GENERATING_PAIRS", 0>> /\ Phase' = <<"FETCHING", 0>>
    \/ \E k \in Pairs : /\ Phase = <<"FETCHING", k>>
                        /\ Phase' = IF k + 1 < NUM_ROUTES THEN <<"FETCHING", k + 1>>
                                    ELSE <<"SAVING", 0>>
    \/ Phase = <<"SAVING", 0>> /\ Phase' = <<"DONE", 0>>

\* C8: a batch run visits INIT, GENERATING_PAIRS, FETCHING(0) .. FETCHING(N-1),
\* SAVING, DONE in this order, and ends in DONE or ABORTED only.
C8_PhaseOrder ==
    [][(mode' # "manual" /\ Phase' # Phase) => PhaseStep]_vars

\* The setup failures of the claim: a bbox of a batch request that is not four
\* parseable floats with min < max on each axis, coordinates of a single-pair
\* request that are not two parseable floats each.
Floats(seq) == \A n \in 1..Len(seq) : ParseFloat(seq[n]) # NaF
UnusableBBox(bbox) ==
    \/ Len(bbox) # 4
    \/ ~Floats(bbox)
    \/ ParseFloat(bbox[1]) >= ParseFloat(bbox[3])
    \/ ParseFloat(bbox[2]) >= ParseFloat(bbox[4])
MalformedPoints(origin, destination) ==
    \/ Len(origin) # 2 \/ Len(destination) # 2
    \/ ~Floats(origin) \/ ~Floats(destination)
Handled == treq[1].handler # "none"
SetupFailure ==
    /\ Handled
    /\ IF treq[1].handler = "calculate_single"
       THEN MalformedPoints(treq[1].body.origin, treq[1].body.destination)
       ELSE UnusableBBox(treq[1].body.bbox)

RejectedBody ==
    /\ Handled
    /\ IF treq[1].handler = "calculate_single"
       THEN Len(treq[1].body.origin) # 2 \/ Len(treq[1].body.destination) # 2
       ELSE Len(treq[1].body.bbox) # 4
UnparseablePoints ==
    /\ treq[1].handler = "calculate_single"
    /\ ~RejectedBody
    /\ ~Floats(treq[1].body.origin) \/ ~Floats(treq[1].body.destination)

ShortestDistance == Least({GoogleAlternatives[n].distance : n \in 1..Len(GoogleAlternatives)})
C10_ShortestOnEveryPair ==
    (mode = "batch" /\ strategy = "shortest") =>
        /\ \A k \in Pairs :
              /\ seen[k].google \in {"unset", "shortest"}
              /\ seen[k].osm \in {"unset", "n/a", "shortest"}
        /\ \A n \in 1..Len(google_routes) : google_routes[n].distance = ShortestDistance

(***************************************************************************)
(* Claims about calculate_coverage (SpecCoverage).                         *)
(***************************************************************************)
\* C11: the coverage calculate_coverage returns lies in [0,100] for every
\* reference route and every candidate, a candidate with more length inside
\* the reference's buffer than the reference is long included.
C11_CoverageInRange ==
    coverage.set => coverage.value \in 0..100

\* C12: calculate_coverage returns exactly 0 when the candidate is absent or
\* the reference route has length 0, and never returns the quotient by zero.
C12_ZeroWithoutDividing ==
    coverage.set =>
        /\ (~candidate.present \/ Length(reference) = 0) => coverage.value = 0
        /\ coverage.value # NaN

\* A present candidate has been scored against a reference of length 0.
C12_Witness ==
    /\ coverage.set
    /\ candidate.present /\ Length(candidate) > 0
    /\ Length(reference) = 0
    /\ coverage.value = 0

(***************************************************************************)
(* Claims about the results of a batch (Spec).                             *)
(***************************************************************************)
Candidates == {"here", "osm"}
Collection(p) == CASE p = "google" -> google_routes
                   [] p = "here" -> here_routes
                   [] OTHER -> osm_routes
SavedCollection(p) == CASE p = "google" -> files.google_routes
                        [] p = "here" -> files.here_routes
                        [] OTHER -> files.osm_routes
CoverageOf(stat, p) == IF p = "here" THEN stat.here_coverage ELSE stat.osm_coverage
FailedOnEveryPair(p) == \A k \in Pairs : returned[k][p] = "absent"

\* C13: when HERE, or the open-data backend, returns (None, None) on every
\* pair of a batch, then at DONE its route collection is empty, in memory and
\* as saved, and every CoverageStat of the batch has coverage 0 for it.
C13_FailedProviderScoresZero ==
    (mode = "batch" /\ state = "DONE") =>
        \A p \in Candidates :
            FailedOnEveryPair(p) =>
                /\ Collection(p) = <<>>
                /\ SavedCollection(p) = FeatureCollection(<<>>)
                /\ \A k \in DOMAIN files.stats : CoverageOf(files.stats[k], p) = 0

\* A finished batch in which HERE failed on every pair, every pair has a
\* CoverageStat, and the open-data backend scored above 0.
C13_Witness ==
    /\ mode = "batch" /\ state = "DONE"
    /\ FailedOnEveryPair("here")
    /\ DOMAIN files.stats = Pairs
    /\ \A k \in Pairs : files.stats[k].osm_coverage > 0
    /\ files.here_routes.features = <<>>

\* What provider p returned for pair k, from the kind of the return and, for
\* Google, the strategy the call worked with.
ReturnOf(k, p) ==
    IF returned[k][p] # "route" THEN NonePair
    ELSE CASE p = "google" ->
                  get_google_route(origins[k + 1], destinations[k + 1], "route",
                                   StrategyOpts(seen[k].google)).ret
           [] p = "here" ->
                  get_here_route(origins[k + 1], destinations[k + 1], "route", {}).ret
           [] OTHER ->
                  get_osm_route(origins[k + 1], destinations[k + 1], "route", {}).ret

\* The route collection of provider p over pairs 0 .. n-1, from what p
\* returned alone.
RECURSIVE OwnCollection(_, _)
OwnCollection(p, n) ==
    IF n = 0 THEN <<>>
    ELSE IF returned[n - 1][p] = "route"
         THEN Append(OwnCollection(p, n - 1), RouteEntry(ReturnOf(n - 1, p), n - 1))
         ELSE OwnCollection(p, n - 1)

DetailsOf(stat, p) == IF p = "here" THEN stat.here_details ELSE stat.osm_details

\* C14: the outcome of one provider on a pair is confined to its slot.  When a
\* batch run has ended, the saved route collection of each candidate provider
\* is the one given by that provider's own returns, and for each pair with a
\* reference route the provider's coverage and details are given by the
\* reference route and the provider's own return; so two runs that differ only
\* in what the other candidate returned for one pair agree on them.
C14_SlotsConfined ==
    (mode = "batch" /\ calls # {} /\ Exited) =>
        \A p \in Candidates :
            /\ SavedCollection(p) = FeatureCollection(OwnCollection(p, NUM_ROUTES))
            /\ \A k \in Pairs :
                  (returned[k]["google"] = "route" /\ returned[k][p] \in {"route", "absent"})
                      => /\ k \in DOMAIN files.stats
                         /\ CoverageOf(files.stats[k], p) =
                               calculate_coverage(ReturnOf(k, "google").route,
                                                  ReturnOf(k, p).route, BUFFER_METERS)
                         /\ DetailsOf(files.stats[k], p) = ReturnOf(k, p).details

(***************************************************************************)
(* Claims about the progress events of a batch (Spec).                     *)
(***************************************************************************)
\* The step events of a batch: steps 0 .. N+1 and the "Saving results..." event.
StepEvents == NUM_ROUTES + 3

\* C15: the progress percentages a batch run emits are integers in 0..100 and
\* never decrease; the n-th step event carries the whole percentage of step
\* n-1 out of N+2 steps; a run that reaches DONE has emitted 100 last.
C15_ProgressMonotone ==
    mode = "batch" =>
        /\ \A n \in 1..Len(out) :
              /\ out[n].type = "progress"
              /\ out[n].progress \in 0..100
              /\ n <= StepEvents => out[n].progress = ((n - 1) * 100) \div (NUM_ROUTES + 2)
        /\ \A n \in 1..(Len(out) - 1) : out[n].progress <= out[n + 1].progress
        /\ state = "DONE" => /\ Len(out) = StepEvents + 1
                              /\ out[Len(out)].progress = 100

\* A batch has reached DONE with every step event and the completion event out.
C15_Witness ==
    /\ mode = "batch" /\ state = "DONE"
    /\ Len(out) = StepEvents + 1
    /\ out[1].progress = 0
    /\ out[2].progress < out[StepEvents - 1].progress
    /\ out[StepEvents].progress = 100

\* The position in the output of the step event of pair k.
EventOfPair(k) == k + 3

\* C16: a progress event follows the work it reports: the pair-generation
\* event is emitted only once the N pairs exist, and the event carrying the
\* step of pair k only once the three adapter calls of pair k have returned.
C16_EventAfterWork ==
    mode = "batch" =>
        /\ Len(out) >= 2 => Len(origins) = NUM_ROUTES /\ Len(destinations) = NUM_ROUTES
        /\ \A k \in Pairs : Len(out) >= EventOfPair(k) => AllReturned(k)

CallsOf(k) == {c \in calls : c.pair = k}

\* C16 as amended: a progress event announces the work it reports.  No pair
\* exists before the pair-generation event is out; no adapter call of pair k
\* is issued before the event carrying the step of pair k is out; and that
\* event is emitted only once every adapter call of the pairs before k has
\* returned.
C16_EventBeforeWork ==
    mode = "batch" =>
        /\ origins # <<>> => Len(out) >= 2
        /\ \A k \in Pairs :
              /\ CallsOf(k) # {} => Len(out) >= EventOfPair(k)
              /\ Len(out) >= EventOfPair(k) => \A j \in 0..(k - 1) : AllReturned(j)

\* The event of pair 1 is out, every call of pair 0 has returned and no call
\* of pair 1 has been issued.
C16_Witness ==
    /\ mode = "batch"
    /\ Len(out) = EventOfPair(1)
    /\ AllReturned(0)
    /\ CallsOf(1) = {}

(***************************************************************************)
(* Claims about the GraphHopper usage counter (SpecUsage).                 *)
(***************************************************************************)
RECURSIVE Sum(_, _)
Sum(f, S) == IF S = {} THEN 0
             ELSE LET c == CHOOSE x \in S : TRUE IN f[c] + Sum(f, S \ {c})

\* C17: the usage counter loses no update: whenever no call is inside
\* _update_gh_usage, the count in the file equals the number of successful
\* GraphHopper calls made so far, however the calls overlapped.
C17_NoLostUpdate ==
    (\A c \in Callers : upc[c] = "idle") =>
        usage_file.count = Sum(updates, Callers)

\* The requests of process c that came back with a success status.
SuccessStatus(c) ==
    {n \in 1..Len(answers[c]) : answers[c][n] \in {"route", "empty"}}

\* C25: the usage counter goes up by one for each GraphHopper call that gets
\* a success status, with or without a route in the response, and is left as it
\* was by a call that fails with a transport error, a non-success status or a
\* missing credential: between the calls of a process the count in the file is
\* the number of its requests answered with a success status.
C25_CountsSuccessStatus ==
    upc[1] = "idle" =>
        /\ usage_file.count = Cardinality(SuccessStatus(1))
        /\ updates[1] = Cardinality(SuccessStatus(1))
        /\ SuccessStatus(1) = {} => usage_file = MissingFile

\* A success status without a route was counted, and the failed call after
\* it left the count at 1.
C25_Witness ==
    /\ upc[1] = "idle"
    /\ answers[1] = <<"empty", "bad_status">>
    /\ usage_file = UsageJson(1)

(***************************************************************************)
(* Claims about the instructions of a route (SpecInstructions).            *)
(***************************************************************************)
\* The positions of seq that hold the first occurrence of their text.
FirstOccurrences(seq) ==
    {n \in 1..Len(seq) : \A m \in 1..(n - 1) : seq[m] # seq[n]}
\* The j-th smallest member of a set of positions.
Nth(S, j) == CHOOSE n \in S : Cardinality({m \in S : m < n}) = j - 1

\* Every step of the response carries an instruction text.
AllInstructions == \A n \in 1..Len(texts) : texts[n] # ""

\* C18: for every adapter and every sequence of instruction texts in the
\* response, the instructions returned hold no text twice and are the texts of
\* the response with every occurrence after the first removed, in order.
C18_InstructionsDeduplicated ==
    (instructions.set /\ AllInstructions) =>
        LET value == instructions.value
            first == FirstOccurrences(texts)
        IN  /\ \A m, n \in 1..Len(value) : value[m] = value[n] => m = n
            /\ Len(value) = Cardinality(first)
            /\ \A j \in 1..Len(value) : value[j] = texts[Nth(first, j)]

(***************************************************************************)
(* Claims about the pair ids and the saved files of a batch (Spec).        *)
(***************************************************************************)
\* The positions of od_points that hold the point of the given type of pair k.
PointsOf(k, type) ==
    {n \in 1..Len(od_points) : od_points[n].pair_id = k /\ od_points[n].type = type}
PointIds == {od_points[n].pair_id : n \in 1..Len(od_points)}

\* C19: in every state of a batch run the pair ids are the dense integers from
\* 0: od_points holds the ids 0 .. m-1 for some m <= N, with exactly one origin
\* and one destination, those of the pair, for each of them and so for every
\* pair already fetched; each route collection holds strictly increasing
\* route_ids, so at most one route per pair, each the id of a merged pair whose
\* call to that provider returned the route.
C19_DensePairIds ==
    mode = "batch" =>
        /\ \E m \in 0..NUM_ROUTES : PointIds = 0..(m - 1)
        /\ \A k \in PointIds :
              /\ Cardinality(PointsOf(k, "origin")) = 1
              /\ Cardinality(PointsOf(k, "destination")) = 1
              /\ \A n \in PointsOf(k, "origin") : od_points[n].geometry = origins[k + 1]
              /\ \A n \in PointsOf(k, "destination") :
                    od_points[n].geometry = destinations[k + 1]
        /\ Len(od_points) = 2 * Cardinality(PointIds)
        /\ \A k \in Pairs : (AllReturned(k) \/ Merged(k)) => k \in PointIds
        /\ \A p \in Providers :
              LET coll == Collection(p)
              IN  /\ \A n \in 1..Len(coll) :
                        /\ coll[n].route_id \in Pairs
                        /\ Merged(coll[n].route_id)
                        /\ returned[coll[n].route_id][p] = "route"
                  /\ \A n \in 1..(Len(coll) - 1) : coll[n].route_id < coll[n + 1].route_id

\* Every pair of a batch is merged with a route of every provider.
C19_Witness ==
    /\ mode = "batch" /\ i = NUM_ROUTES
    /\ \A p \in Providers : Ids(Collection(p)) = Pairs
    /\ PointIds = Pairs

\* C20: a batch run that has reached DONE has written the three route
\* collections and the statistics: each collection file is a feature
\* collection written by this run with the routes the run collected, an empty
\* one for a provider without a route, never a missing file and never what an
\* earlier run left; stats.json holds the statistics of this run.
C20_AllFilesWritten ==
    (mode = "batch" /\ state = "DONE") =>
        /\ \A p \in Providers :
              /\ SavedCollection(p).type = "FeatureCollection"
              /\ SavedCollection(p).fresh
              /\ SavedCollection(p).features = Collection(p)
        /\ files.written
        /\ files.stats = stats

\* A batch is DONE in which HERE produced no route and Google one for every
\* pair: the HERE collection is written empty.
C20_Witness ==
    /\ mode = "batch" /\ state = "DONE"
    /\ \A k \in Pairs : returned[k]["here"] = "absent" /\ returned[k]["google"] = "route"
    /\ files.here_routes = FeatureCollection(<<>>)
    /\ Len(files.google_routes.features) = NUM_ROUTES
    /\ files.written

(***************************************************************************)
(* Claims about single-pair runs.                                          *)
(***************************************************************************)
\* The three collections and the statistics of a single-pair run hold what
\* the calls of pair 0 returned: at most one route each, numbered 0.
SingleResultWellFormed ==
    /\ \A p \in Providers :
          /\ Len(Collection(p)) <= 1
          /\ Ids(Collection(p)) \subseteq {0}
          /\ Len(Collection(p)) = 1 <=> returned[0][p] = "route"
    /\ DOMAIN stats \subseteq {0}

\* C21: a single-pair run that has issued its adapter calls completes for
\* every combination of present and absent results: it ends in DONE with three
\* collections of at most one route each, numbered 0, and with statistics that
\* hold an entry for key 0 exactly when Google returned the reference route.
C21_SingleRunCompletes ==
    (mode = "manual" /\ calls # {} /\ Exited) =>
        /\ state = "DONE"
        /\ SingleResultWellFormed
        /\ 0 \in DOMAIN stats <=> returned[0]["google"] = "route"

\* C22: a completed single-pair run whose origin is its destination, where each
\* adapter returned nothing or a route of length zero, has a well-formed
\* result with no CoverageStat entry.
C22_CoincidentNoStat ==
    (mode = "manual" /\ state = "DONE" /\ origins[1] = destinations[1]) =>
        /\ SingleResultWellFormed
        /\ DOMAIN stats = {}

(***************************************************************************)
(* Claims about the road snappers (SpecSnap).                              *)
(***************************************************************************)
\* C23: snapping never fails the caller: whatever the nearest-road lookup
\* does, the snapper returns a coordinate, and when the lookup fails (no
\* credential, transport error, non-success status, no usable position) the
\* coordinate is the point it was given.
C23_SnapNeverFails ==
    snapped.set =>
        /\ snapped.value \in GridPoints
        /\ snap_lookup \in SnapFailures \cup {"no_key"} => snapped.value = snap_point
        /\ snap_lookup = "position" => snapped.value = NearestRoad(snap_point)

\* The HERE lookup failed on a point off the roads, and the point came back
\* as it was given.
C23_Witness ==
    /\ snapped.set
    /\ snapper = "here"
    /\ snap_lookup = "transport_failure"
    /\ NearestRoad(snap_point) # snap_point
    /\ snapped.value = snap_point

(***************************************************************************)
(* Claims about the adapter calls of a pair.                               *)
(***************************************************************************)
\* The three calls of pair k have been submitted.
Submitted(k) ==
    \/ k < i
    \/ k = i /\ fpc \in {"result_google", "result_here", "result_osm", "raise", "left"}

\* C24: every pair gets exactly three adapter calls, all with the origin and
\* the destination of the pair: one to Google, one to HERE and one to a single
\* open-data backend, GraphHopper exactly when osm_provider is "graphhopper"
\* and OSRM for any other value.
C24_ThreeCallsPerPair ==
    \A k \in Pairs :
        /\ Cardinality(CallsOf(k)) <= 3
        /\ \A c \in CallsOf(k) :
              /\ c.origin = origins[k + 1]
              /\ c.destination = destinations[k + 1]
              /\ c.provider = "graphhopper" => osm_provider = "graphhopper"
              /\ c.provider = "osrm" => osm_provider # "graphhopper"
        /\ Submitted(k) =>
              /\ Cardinality(CallsOf(k)) = 3
              /\ \E c \in CallsOf(k) : c.provider = "google"
              /\ \E c \in CallsOf(k) : c.provider = "here"
              /\ \E c \in CallsOf(k) : c.provider \in {"osrm", "graphhopper"}

\* The calls of the last pair of a batch are out, and a provider name that is
\* neither "osrm" nor "graphhopper" sent the third call to OSRM.
C24_Witness ==
    /\ mode = "batch"
    /\ osm_provider = "valhalla"
    /\ Submitted(NUM_ROUTES - 1)
    /\ \E c \in CallsOf(NUM_ROUTES - 1) : c.provider = "osrm"

(***************************************************************************)
(* Claims about the end of a run and the /progress stream.                 *)
(***************************************************************************)
\* C26: the busy signal is always eventually released: every run that was
\* started eventually terminates, whether or not a client reads /progress, and
\* once no run is active the busy check lets a request through.
C26_BusyReleased ==
    /\ \A p \in 1..MaxRequests :
          (Len(procs) >= p /\ procs[p].status = "running")
              ~> (Len(procs) >= p /\ procs[p].status = "exited")
    /\ [](RunningProcs = {} => ~Busy)

\* The events a client has received are the first lines of run p in the order
\* the run printed them, each once, with at most a close event after the last
\* line of the run.
InOrder(events, p) ==
    \A n \in 1..Len(events) :
        \/ events[n] = <<p, n>>
        \/ /\ events[n] = <<0, 0>>
           /\ n = Len(events)
           /\ n = procs[p].emitted + 1

\* C27: a client reading /progress for the duration of a run receives every
\* output line of that run exactly once and in the order the run printed them,
\* followed by a single close event, also while other /progress requests and
\* comparison requests are handled.
C27_EveryLineOnce ==
    \A g \in DOMAIN gpc :
        gout[g] # None =>
            /\ InOrder(received[g], gout[g])
            /\ gpc[g] \in {"finished", "error"} =>
                  /\ Len(received[g]) = procs[gout[g]].emitted + 1
                  /\ received[g][Len(received[g])] = <<0, 0>>

\* C28: a run accepted through /compare-places executes a batch comparison:
\* its subprocess reaches the fetching phase and ends in DONE with the results
\* saved.
C28_PlacesRunsBatch ==
    (treq[1].handler = "compare_places" /\ Exited) =>
        /\ mode = "batch"
        /\ calls # {}
        /\ state = "DONE"
        /\ files.written
====
